---- MODULE Spec2Model ----
(***************************************************************************)
(* A model of Palettator: the interactive command loop of main.py, the     *)
(* palette collection it keeps, and the four exporters of                  *)
(* modules/export.py.                                                      *)
(*                                                                         *)
(* Text is modelled as a sequence of one-character strings, a binary file  *)
(* as a sequence of byte values, so that formatting, parsing, prefix tests *)
(* and splitting are computed the way the Python code computes them.       *)
(***************************************************************************)
EXTENDS Integers, Sequences, FiniteSets, TLC

VARIABLES
    palettes,   \* palettes_list.palettes: the sequence of PaletteObject
    line,       \* the last text read by input("Option : ")
    status,     \* "running", "exited" (exit()) or "crashed" (uncaught exception)
    msg,        \* the error message printed by the last loop iteration, or "none"
    act,        \* what the last iteration executed: [action, indice, display]
    images,     \* the list of image paths of the last extraction batch
    processed,  \* the paths of that batch whose loop body ran to its end
    skipped,    \* the paths of that batch whose exception was caught and printed
    calls,      \* the exporter.export(...) invocations of the last iteration
    written,    \* the files written by the last iteration: [filepath, content]
    fn,         \* function-level specifications: the function applied, or "none"
    arg,        \* its argument
    ret         \* its result

vars == <<palettes, line, status, msg, act, images, processed, skipped, calls,
          written, fn, arg, ret>>

progVars == <<palettes, line, status, msg, act, images, processed, skipped, calls,
              written>>

fnVars == <<fn, arg, ret>>

(***************************************************************************)
(* Text helpers (Python str methods used by the code).                     *)
(***************************************************************************)
Digits == <<"0", "1", "2", "3", "4", "5", "6", "7", "8", "9">>

LowerHex == <<"0", "1", "2", "3", "4", "5", "6", "7", "8", "9",
              "a", "b", "c", "d", "e", "f">>

Range(s) == {s[i] : i \in DOMAIN s}

IndexOf(ch, s) == CHOOSE i \in DOMAIN s : s[i] = ch

\* str.upper() on one character, for the letters the model's texts hold.
UpperChar(ch) ==
    CASE ch = "a" -> "A" [] ch = "b" -> "B" [] ch = "c" -> "C"
      [] ch = "d" -> "D" [] ch = "e" -> "E" [] ch = "f" -> "F"
      [] ch = "l" -> "L" [] ch = "x" -> "X"
      [] OTHER -> ch

upper(s) == [i \in DOMAIN s |-> UpperChar(s[i])]

\* str.startswith(prefix)
startswith(s, prefix) ==
    /\ Len(prefix) <= Len(s)
    /\ SubSeq(s, 1, Len(prefix)) = prefix

\* str(n) for an integer n >= 0: its decimal digits.
RECURSIVE Dec(_)
Dec(n) == IF n < 10 THEN <<Digits[n + 1]>>
          ELSE Dec(n \div 10) \o <<Digits[(n % 10) + 1]>>

\* '%x' % n for n >= 0: lowercase hexadecimal digits, no padding.
RECURSIVE HexLower(_)
HexLower(n) == IF n < 16 THEN <<LowerHex[n + 1]>>
               ELSE HexLower(n \div 16) \o <<LowerHex[(n % 16) + 1]>>

\* A mutant of Format02x: the zero padding is lost ('%x').
Format02x_nopad(n) == HexLower(n)

\* '%02x' % n: at least two digits, padded on the left with "0".
Format02x(n) == IF Len(HexLower(n)) < 2 THEN <<"0">> \o HexLower(n) ELSE HexLower(n)

\* A mutant of convert_rgb_to_hex: .upper() is forgotten.
convert_rgb_to_hex_lower(rgb) ==
    <<"#">> \o Format02x(rgb[1]) \o Format02x(rgb[2]) \o Format02x(rgb[3])

\* main.py convert_rgb_to_hex: ('#%02x%02x%02x' % rgb).upper()
convert_rgb_to_hex(rgb) ==
    upper(<<"#">> \o Format02x(rgb[1]) \o Format02x(rgb[2]) \o Format02x(rgb[3]))

\* The first position of character ch in s, or 0.
Find(ch, s) ==
    IF \E i \in DOMAIN s : s[i] = ch
    THEN CHOOSE i \in DOMAIN s : s[i] = ch /\ \A j \in 1..(i - 1) : s[j] # ch
    ELSE 0

\* The last position of character ch in s, or 0.
FindLast(ch, s) ==
    IF \E i \in DOMAIN s : s[i] = ch
    THEN CHOOSE i \in DOMAIN s : s[i] = ch /\ \A j \in (i + 1)..Len(s) : s[j] # ch
    ELSE 0

\* str.split(sep) for a one-character separator: the pieces between the
\* separators, empty pieces included.
RECURSIVE split(_, _)
split(s, sep) ==
    IF Find(sep, s) = 0 THEN <<s>>
    ELSE <<SubSeq(s, 1, Find(sep, s) - 1)>>
         \o split(SubSeq(s, Find(sep, s) + 1, Len(s)), sep)

\* str.strip(): leading and trailing blanks removed.
RECURSIVE strip(_)
strip(s) ==
    IF s = <<>> THEN s
    ELSE IF Head(s) = " " THEN strip(Tail(s))
    ELSE IF s[Len(s)] = " " THEN strip(SubSeq(s, 1, Len(s) - 1))
    ELSE s

\* sep.join(parts)
RECURSIVE join(_, _)
join(parts, sep) ==
    IF parts = <<>> THEN <<>>
    ELSE IF Len(parts) = 1 THEN parts[1]
    ELSE parts[1] \o sep \o join(Tail(parts), sep)

\* The concatenation of a sequence of texts.
RECURSIVE concat(_)
concat(parts) == IF parts = <<>> THEN <<>> ELSE Head(parts) \o concat(Tail(parts))

(***************************************************************************)
(* main.py: paths and file names.                                          *)
(***************************************************************************)
\* os.path.basename(image_path), the second component of get_image_info.
basename(path) == SubSeq(path, FindLast("/", path) + 1, Len(path))

\* os.path.dirname(image_path), the first component of get_image_info.
dirname(path) ==
    IF FindLast("/", path) <= 1 THEN SubSeq(path, 1, FindLast("/", path))
    ELSE SubSeq(path, 1, FindLast("/", path) - 1)

get_image_info(image_path) == <<dirname(image_path), basename(image_path)>>

\* A mutant of image_base_name: the text before the LAST dot (os.path.splitext).
image_base_name_splitext(image_path) ==
    LET name == get_image_info(image_path)[2]
    IN  IF FindLast(".", name) = 0 THEN name
        ELSE SubSeq(name, 1, FindLast(".", name) - 1)

\* image_name = image_name.split('.')[0] (save_palette and export).
image_base_name(image_path) == split(get_image_info(image_path)[2], ".")[1]

\* config["palette"]["save_path"], as a text.
save_path == <<"o", "u", "t">>

\* os.path.join(save_path, f"{image_name}_palette.{extension}")
palette_file_path(image_name, extension) ==
    save_path \o <<"/">> \o image_name
    \o <<"_", "p", "a", "l", "e", "t", "t", "e", ".">> \o extension

(***************************************************************************)
(* modules/export.py: the four exporters.  Each is modelled by the content *)
(* it writes to filepath.                                                  *)
(***************************************************************************)
\* zip(palette_rgb, palette_hex) stops at the shorter list.
ZipLen(a, b) == IF Len(a) < Len(b) THEN Len(a) ELSE Len(b)

CsvSpecial == {",", "\"", "\r", "\n"}

\* csv.QUOTE_MINIMAL: a field holding the delimiter, the quote character or a
\* line break is quoted, its quotes doubled.
CsvField(f) ==
    IF Range(f) \cap CsvSpecial = {} THEN f
    ELSE <<"\"">>
         \o concat([i \in DOMAIN f |->
                      IF f[i] = "\"" THEN <<"\"", "\"">> ELSE <<f[i]>>])
         \o <<"\"">>

\* A mutant of CsvRow: the line terminator is "\n" only.
CsvRow_lf(fields) ==
    join([i \in DOMAIN fields |-> CsvField(fields[i])], <<",">>) \o <<"\n">>

\* csv writer: the fields joined by the delimiter, then the default line
\* terminator "\r\n" (the file is opened with newline='').
CsvRow(fields) ==
    join([i \in DOMAIN fields |-> CsvField(fields[i])], <<",">>) \o <<"\r", "\n">>

\* A mutant of ExportToCSV_export: the header row is not written.
ExportToCSV_export_noheader(palette_name, filepath, palette_rgb, palette_hex) ==
    concat([i \in 1..ZipLen(palette_rgb, palette_hex) |->
              CsvRow(<<Dec(palette_rgb[i][1]), Dec(palette_rgb[i][2]),
                       Dec(palette_rgb[i][3]), palette_hex[i]>>)])

ExportToCSV_export(palette_name, filepath, palette_rgb, palette_hex) ==
    CsvRow(<<(<<"R">>), (<<"G">>), (<<"B">>), (<<"H", "E", "X">>)>>)
    \o concat([i \in 1..ZipLen(palette_rgb, palette_hex) |->
                 CsvRow(<<Dec(palette_rgb[i][1]), Dec(palette_rgb[i][2]),
                          Dec(palette_rgb[i][3]), palette_hex[i]>>)])

\* json.dumps of a str: quotes and backslashes are escaped.
JsonString(s) ==
    <<"\"">>
    \o concat([i \in DOMAIN s |->
                 IF s[i] = "\"" THEN <<"\\", "\"">>
                 ELSE IF s[i] = "\\" THEN <<"\\", "\\">>
                 ELSE <<s[i]>>])
    \o <<"\"">>

\* json.dumps of a list: the items separated by ", ".
JsonList(items) == <<"[">> \o join(items, <<",", " ">>) \o <<"]">>

JsonKey(k) == JsonString(k) \o <<":", " ">>

\* A mutant of ExportToJSon_export: the hex list is written reversed.
ExportToJSon_export_reversed(palette_name, filepath, palette_rgb, palette_hex) ==
    <<"{">>
    \o JsonKey(<<"n", "a", "m", "e">>) \o JsonString(palette_name) \o <<",", " ">>
    \o JsonKey(<<"r", "g", "b">>)
    \o JsonList([i \in DOMAIN palette_rgb |->
                   JsonList(<<Dec(palette_rgb[i][1]), Dec(palette_rgb[i][2]),
                              Dec(palette_rgb[i][3])>>)])
    \o <<",", " ">>
    \o JsonKey(<<"h", "e", "x">>)
    \o JsonList([i \in DOMAIN palette_hex |->
                   JsonString(palette_hex[Len(palette_hex) + 1 - i])])
    \o <<"}">>

\* json.dump({"name": palette_name, "rgb": rgb, "hex": palette_hex}, f)
ExportToJSon_export(palette_name, filepath, palette_rgb, palette_hex) ==
    <<"{">>
    \o JsonKey(<<"n", "a", "m", "e">>) \o JsonString(palette_name) \o <<",", " ">>
    \o JsonKey(<<"r", "g", "b">>)
    \o JsonList([i \in DOMAIN palette_rgb |->
                   JsonList(<<Dec(palette_rgb[i][1]), Dec(palette_rgb[i][2]),
                              Dec(palette_rgb[i][3])>>)])
    \o <<",", " ">>
    \o JsonKey(<<"h", "e", "x">>)
    \o JsonList([i \in DOMAIN palette_hex |-> JsonString(palette_hex[i])])
    \o <<"}">>

GplHeader(palette_name, number) ==
    <<"G", "I", "M", "P", " ", "P", "a", "l", "e", "t", "t", "e", "\n">>
    \o <<"N", "a", "m", "e", ":", " ">> \o palette_name \o <<"\n">>
    \o <<"C", "o", "l", "u", "m", "n", "s", ":", " ", "5", "\n">>
    \o <<"#", "\n">>
    \o <<"#", " ", "N", "u", "m", "b", "e", "r", " ", ":", " ">> \o Dec(number)
    \o <<"\n">>
    \o <<"#", "\n">>

\* A mutant of GplColorLine: the index is written 1-based.
GplColorLine_onebased(color, i) ==
    Dec(color[1]) \o <<" ">> \o Dec(color[2]) \o <<" ">> \o Dec(color[3])
    \o <<" ", "I", "n", "d", "e", "x", " ">> \o Dec(i + 1) \o <<"\n">>

\* f"{color[0]} {color[1]} {color[2]} Index {i}\n"
GplColorLine(color, i) ==
    Dec(color[1]) \o <<" ">> \o Dec(color[2]) \o <<" ">> \o Dec(color[3])
    \o <<" ", "I", "n", "d", "e", "x", " ">> \o Dec(i) \o <<"\n">>

ExportToGPL_export(palette_name, filepath, palette_rgb, palette_hex) ==
    GplHeader(palette_name, Len(palette_rgb))
    \o concat([i \in DOMAIN palette_rgb |-> GplColorLine(palette_rgb[i], i - 1)])

\* A mutant of AcoColor: each channel is written once, not twice.
AcoColor_single(color) == <<0, 0, color[1], color[2], color[3], 0, 0>>

\* bytearray([0,0,color[0],color[0],color[1],color[1],color[2],color[2],0,0])
AcoColor(color) ==
    <<0, 0, color[1], color[1], color[2], color[2], color[3], color[3], 0, 0>>

\* A mutant of AcoCount: the count is split at 256.
AcoCount_base256(nb) == <<nb \div 256, nb % 256>>

\* nb_1 = floor(nb/255); nb_2 = nb%255 (the float quotient nb/255 floors to the
\* integer quotient for every count a list can have here).
AcoCount(nb) == <<nb \div 255, nb % 255>>

\* bytearray([nb_1, nb_2]) raises ValueError when nb_1 is not in range(0, 256).
AcoCount_raises(nb) == nb \div 255 > 255

ExportToACO_export(palette_name, filepath, palette_rgb, palette_hex) ==
    <<0, 1>>
    \o AcoCount(Len(palette_rgb))
    \o concat([i \in DOMAIN palette_rgb |-> AcoColor(palette_rgb[i])])

\* exporter.export(...) for the exporter the command chose.
Exporter_export(exporter, palette_name, filepath, palette_rgb, palette_hex) ==
    CASE exporter = "ExportToCSV" ->
           ExportToCSV_export(palette_name, filepath, palette_rgb, palette_hex)
      [] exporter = "ExportToJSon" ->
           ExportToJSon_export(palette_name, filepath, palette_rgb, palette_hex)
      [] exporter = "ExportToGPL" ->
           ExportToGPL_export(palette_name, filepath, palette_rgb, palette_hex)
      [] exporter = "ExportToACO" ->
           ExportToACO_export(palette_name, filepath, palette_rgb, palette_hex)

(***************************************************************************)
(* main.py: palettes and the export of one stored palette.                 *)
(***************************************************************************)
\* A Pylette Color as the code reads it: .rgb, .freq (here in 1/10000) and
\* .luminance (computed by the library, here given with the colour).
White == [rgb |-> <<255, 255, 255>>, freq |-> 4000, luminance |-> 255]
Black == [rgb |-> <<0, 0, 0>>, freq |-> 3000, luminance |-> 0]
Red   == [rgb |-> <<255, 0, 0>>, freq |-> 2000, luminance |-> 54]
Green == [rgb |-> <<0, 255, 0>>, freq |-> 1000, luminance |-> 182]
Teal  == [rgb |-> <<9, 171, 16>>, freq |-> 10000, luminance |-> 125]

\* A mutant of palette_to_rgb: the colours are re-sorted (reversed).
palette_to_rgb_reversed(palette) ==
    [i \in DOMAIN palette |-> palette[Len(palette) + 1 - i].rgb]

\* [tuple(color.rgb) for color in palette]
palette_to_rgb(palette) == [i \in DOMAIN palette |-> palette[i].rgb]

\* [convert_rgb_to_hex(tuple(color.rgb)) for color in palette.palette]
palette_to_hex(palette) == [i \in DOMAIN palette |-> convert_rgb_to_hex(palette[i].rgb)]

Csv  == <<"c", "s", "v">>
Json == <<"j", "s", "o", "n">>
Gpl  == <<"g", "p", "l">>
Aco  == <<"a", "c", "o">>

ExportActions == {Csv, Json, Gpl, Aco}

\* export_csv, export_json, export_gpl, export_aco: the exporter each builds.
ExporterOf(extension) ==
    CASE extension = Csv  -> "ExportToCSV"
      [] extension = Json -> "ExportToJSon"
      [] extension = Gpl  -> "ExportToGPL"
      [] extension = Aco  -> "ExportToACO"

\* The body of export's loop for one PaletteObject: the arguments of the
\* exporter.export(...) call it makes.
export_call(exporter, palette_object, extension) ==
    [exporter     |-> exporter,
     palette_name |-> image_base_name(palette_object.image_path),
     filepath     |-> palette_file_path(image_base_name(palette_object.image_path),
                                        extension),
     palette_rgb  |-> palette_to_rgb(palette_object.palette),
     palette_hex  |-> palette_to_hex(palette_object.palette)]

\* The file that call writes.
export_write(call) ==
    [filepath |-> call.filepath,
     content  |-> Exporter_export(call.exporter, call.palette_name, call.filepath,
                                  call.palette_rgb, call.palette_hex)]

(***************************************************************************)
(* main.py: rendering and saving the swatch image.                         *)
(***************************************************************************)
square_x == 100
square_y == 100
columns == 3
title_size == 18
subtitle_size == 14

\* config["palette"] as read when config.ini sets none of these options.
config ==
    [square_x |-> square_x, square_y |-> square_y, columns |-> columns,
     title_size |-> title_size, subtitle_size |-> subtitle_size]

Png == <<"p", "n", "g">>

\* A mutant of lines_count: the row count is rounded down.
lines_count_floor(n, cols) == n \div cols

\* lines = ceil(len(palette.colors) / columns)
lines_count(n, cols) == (n + cols - 1) \div cols

\* A mutant of color_text: the threshold is taken inclusive (>= 200).
color_text_inclusive(luminance) ==
    IF luminance >= 200 THEN <<0, 0, 0>> ELSE <<255, 255, 255>>

\* color_text = (0, 0, 0) if color.luminance > 200 else (255, 255, 255)
color_text(luminance) == IF luminance > 200 THEN <<0, 0, 0>> ELSE <<255, 255, 255>>

\* f"{color.freq*100:.2f}%", for a frequency given in 1/10000.
subtitle_text(freq) ==
    Dec(freq \div 100) \o <<".">> \o <<Digits[((freq % 100) \div 10) + 1]>>
    \o <<Digits[(freq % 10) + 1]>> \o <<"%">>

\* The smaller of square_x and square_y (the test "if square_x < square_y").
SquareMin(cfg) == IF cfg.square_x < cfg.square_y THEN cfg.square_x ELSE cfg.square_y

\* create_palette_image raises when columns is 0: ceil(len(..) / columns) is a
\* ZeroDivisionError.  Nothing in it tests the length of the palette.
create_palette_image_raises(cfg, palette) == cfg.columns = 0

\* create_palette_image under the configuration cfg: the canvas and, per
\* colour, the square's origin, fill and outline, then the two labels, each
\* with its text, its vertical position and its fill colour.  (The horizontal
\* positions depend on the font's metrics and are not part of the model.)
create_palette_image_with(cfg, palette, palette_rgb, image_path) ==
    [width    |-> cfg.columns * cfg.square_x,
     height   |-> lines_count(Len(palette), cfg.columns) * cfg.square_y,
     swatches |-> [i \in 1..ZipLen(palette, palette_rgb) |->
                     [x             |-> ((i - 1) % cfg.columns) * cfg.square_x,
                      y             |-> ((i - 1) \div cfg.columns) * cfg.square_y,
                      fill          |-> palette_rgb[i],
                      outline       |-> convert_rgb_to_hex(palette_rgb[i]),
                      title         |-> convert_rgb_to_hex(palette_rgb[i]),
                      title_y       |-> ((i - 1) \div cfg.columns) * cfg.square_y
                                        + SquareMin(cfg) \div 2
                                        - cfg.title_size \div 2,
                      title_fill    |-> color_text(palette[i].luminance),
                      subtitle      |-> subtitle_text(palette[i].freq),
                      subtitle_y    |-> ((i - 1) \div cfg.columns) * cfg.square_y
                                        + SquareMin(cfg) \div 2
                                        - cfg.title_size \div 2
                                        + cfg.title_size + cfg.subtitle_size \div 2,
                      subtitle_fill |-> color_text(palette[i].luminance)]]]

\* create_palette_image as main() calls it, under the loaded configuration.
create_palette_image(palette, palette_rgb, image_path) ==
    create_palette_image_with(config, palette, palette_rgb, image_path)

\* save_palette under the configuration cfg: the file it writes, at
\* {save_path}/{image_name}_palette.png.
save_palette_with(cfg, palette, palette_rgb, image_path) ==
    [filepath |-> palette_file_path(image_base_name(image_path), Png),
     content  |-> create_palette_image_with(cfg, palette, palette_rgb, image_path)]

\* save_palette as main() calls it.
save_palette(palette, palette_rgb, image_path) ==
    save_palette_with(config, palette, palette_rgb, image_path)

(***************************************************************************)
(* main.py: reading an option.                                             *)
(***************************************************************************)
\* get_indice_from_option returns None, -1 (all the palettes) or an index.
\* None is modelled as 0, which the function never returns as an index.
None == 0
ALL == -1

IsDigits(s) == s # <<>> /\ \A i \in DOMAIN s : s[i] \in Range(Digits)

RECURSIVE DigitsValue(_)
DigitsValue(s) ==
    IF s = <<>> THEN 0
    ELSE 10 * DigitsValue(SubSeq(s, 1, Len(s) - 1)) + (IndexOf(s[Len(s)], Digits) - 1)

\* int(text): an optional sign and decimal digits; anything else raises
\* ValueError (ok = FALSE).
PyInt(s) ==
    IF IsDigits(s) THEN [ok |-> TRUE, value |-> DigitsValue(s)]
    ELSE IF s # <<>> /\ Head(s) = "+" /\ IsDigits(Tail(s))
         THEN [ok |-> TRUE, value |-> DigitsValue(Tail(s))]
    ELSE IF s # <<>> /\ Head(s) = "-" /\ IsDigits(Tail(s))
         THEN [ok |-> TRUE, value |-> 0 - DigitsValue(Tail(s))]
    ELSE [ok |-> FALSE, value |-> 0]

\* A mutant of get_indice_from_option: the upper range test is forgotten.
get_indice_from_option_norange(image_path, npalettes, all) ==
    LET indice_split == split(strip(image_path), " ")
    IN  IF Len(indice_split) > 1
        THEN IF startswith(indice_split[2], <<"-">>)
             THEN 1
             ELSE IF all /\ indice_split[2] \in {<<"a", "l", "l">>, <<"A", "L", "L">>}
                  THEN ALL
             ELSE IF ~PyInt(indice_split[2]).ok THEN None
             ELSE IF PyInt(indice_split[2]).value < 1 THEN None
             ELSE PyInt(indice_split[2]).value
        ELSE 1

\* A mutant of get_indice_from_option: an omitted token resolves to no index.
get_indice_from_option_nodefault(image_path, npalettes, all) ==
    LET indice_split == split(strip(image_path), " ")
        InRange(indice) == IF indice < 1 \/ indice > npalettes THEN None ELSE indice
    IN  IF Len(indice_split) > 1
        THEN IF startswith(indice_split[2], <<"-">>)
             THEN InRange(1)
             ELSE IF all /\ indice_split[2] \in {<<"a", "l", "l">>, <<"A", "L", "L">>}
                  THEN ALL
             ELSE IF ~PyInt(indice_split[2]).ok THEN None
             ELSE InRange(PyInt(indice_split[2]).value)
        ELSE None

\* get_indice_from_option(image_path, palettes_list, all), with
\* npalettes = len(palettes_list.palettes).
get_indice_from_option(image_path, npalettes, all) ==
    LET indice_split == split(strip(image_path), " ")
        InRange(indice) == IF indice < 1 \/ indice > npalettes THEN None ELSE indice
    IN  IF Len(indice_split) > 1
        THEN IF startswith(indice_split[2], <<"-">>)
                \/ startswith(indice_split[2], <<"-", "-">>)
             THEN InRange(1)
             ELSE IF all /\ indice_split[2] \in {<<"a", "l", "l">>, <<"A", "L", "L">>}
                  THEN ALL
             ELSE IF ~PyInt(indice_split[2]).ok THEN None
             ELSE InRange(PyInt(indice_split[2]).value)
        ELSE InRange(1)

DisplayFlags == {<<"-", "d">>, <<"-", "-", "d", "i", "s", "p", "l", "a", "y">>}

get_display_from_option(image_path) ==
    LET option_split == split(strip(image_path), " ")
    IN  \/ (Len(option_split) > 1 /\ option_split[2] \in DisplayFlags)
        \/ (Len(option_split) > 2 /\ option_split[3] \in DisplayFlags)

\* option_split[0][1:]
get_action_from_option(image_path) == Tail(split(strip(image_path), " ")[1])

(***************************************************************************)
(* The environment: what the user types, the image files, what the file    *)
(* selector returns.                                                       *)
(***************************************************************************)
MaxImages == 2

\* Three image files: /a.p and /a.j share the text before their first dot.
ImageA == <<"/", "a", ".", "p">>
ImageB == <<"/", "a", ".", "j">>
ImageC == <<"/", "d", "/", "b", ".", "c", ".", "p">>

ImagePaths == {ImageA, ImageB, ImageC}

\* A directory.
DirD == <<"/", "d">>

\* extract_colors(image=image_path, ...): the palette Pylette returns for each
\* image file, sorted by the library.
extract_colors(image_path) ==
    CASE image_path = ImageA -> <<White, Black, Red, Green>>
      [] image_path = ImageB -> <<Teal>>
      [] OTHER -> <<Black, White>>

\* What processing one path of a batch can do: get_palette raises, save_palette
\* raises, or both return.  A path that names no image file makes get_palette raise.
Outcomes(image_path) ==
    IF image_path \in ImagePaths THEN {"ok", "get_palette_raises", "save_palette_raises"}
    ELSE {"get_palette_raises"}

\* os.path.exists / os.path.isfile of a typed text.
FsKind(text) ==
    IF text \in ImagePaths THEN "file" ELSE IF text = DirD THEN "dir" ELSE "none"

\* The lists the multi-file selector can return: distinct files, at most MaxImages.
Selections ==
    {sel \in UNION {[1..n -> ImagePaths] : n \in 1..MaxImages} :
        \A i, j \in DOMAIN sel : i # j => sel[i] # sel[j]}

Words ==
    [s      |-> <<"/", "s">>,
     show   |-> <<"/", "s", "h", "o", "w">>,
     select |-> <<"/", "s", "e", "l", "e", "c", "t">>,
     multi  |-> <<"/", "m", "u", "l", "t", "i">>,
     csv    |-> <<"/", "c", "s", "v">>,
     json   |-> <<"/", "j", "s", "o", "n">>,
     gpl    |-> <<"/", "g", "p", "l">>,
     aco    |-> <<"/", "a", "c", "o">>,
     csvx   |-> <<"/", "c", "s", "v", "x">>,
     l      |-> <<"/", "l">>,
     list   |-> <<"/", "l", "i", "s", "t">>,
     h      |-> <<"/", "h">>,
     help   |-> <<"/", "h", "e", "l", "p">>,
     c      |-> <<"/", "c">>,
     config |-> <<"/", "c", "o", "n", "f", "i", "g">>,
     exit   |-> <<"/", "e", "x", "i", "t">>,
     one    |-> <<"1">>,
     two    |-> <<"2">>,
     junk   |-> <<"x">>]

\* The index tokens tried after a show or export command.
Tokens ==
    {<<"a", "l", "l">>, <<"A", "L", "L">>, <<"A", "l", "l">>, <<"0">>, <<"1">>,
     <<"2">>, <<"3">>, <<"4">>, <<"-", "3">>, <<"x">>, <<"-", "d">>}

WithTokens(word) == {word} \cup {word \o <<" ">> \o t : t \in Tokens}

\* The texts typed at the prompt.
Lines ==
    WithTokens(Words.s) \cup WithTokens(Words.csv)
    \cup {Words.show, Words.select, Words.s \o <<" ", "1", " ", "-", "d">>,
          Words.show \o <<" ", "-", "-", "d", "i", "s", "p", "l", "a", "y">>,
          Words.show \o <<" ", "2", " ", "-", "-", "d", "i", "s", "p", "l", "a", "y">>}
    \cup UNION {{w, w \o <<" ", "A", "L", "L">>} :
                  w \in {Words.json, Words.gpl, Words.aco, Words.csvx}}
    \cup {Words.l, Words.list, Words.h, Words.help, Words.c, Words.config,
          Words.exit, Words.one, Words.two, Words.multi, Words.junk, DirD}
    \cup ImagePaths

(***************************************************************************)
(* main.py: main().  Each action is one pass of the inner loop from         *)
(* input("Option : ") to the end of what that option makes the program do. *)
(***************************************************************************)
ActHelp   == <<"h", "e", "l", "p">>
ActConfig == <<"c", "o", "n", "f", "i", "g">>
ActShow   == <<"s", "h", "o", "w">>
ActList   == <<"l", "i", "s", "t">>
ActGenerate == <<"g", "e", "n", "e", "r", "a", "t", "e">>

\* action = 'generate'; indice = 0; display = None, and nothing executed.
NoAct == [action |-> <<>>, indice |-> 0, display |-> FALSE]

\* The branch of the if/elif chain of the inner loop that a text takes.
Branch(image_path) ==
    IF image_path = Words.exit THEN "exit"
    ELSE IF image_path \in {Words.h, Words.help} THEN "help"
    ELSE IF image_path \in {Words.c, Words.config} THEN "config"
    ELSE IF startswith(image_path, Words.s) \/ startswith(image_path, Words.show)
         THEN "show"
    ELSE IF \/ startswith(image_path, Words.csv) \/ startswith(image_path, Words.json)
            \/ startswith(image_path, Words.gpl) \/ startswith(image_path, Words.aco)
         THEN "export"
    ELSE IF startswith(image_path, Words.l) \/ startswith(image_path, Words.list)
         THEN "list"
    ELSE IF FsKind(image_path) # "none" THEN "path"
    ELSE IF image_path = Words.one \/ image_path = Words.select THEN "select"
    ELSE IF image_path = Words.two \/ image_path = Words.multi THEN "multi"
    ELSE "invalid"

PaletteObject(palette, image_path, palette_path) ==
    [palette |-> palette, image_path |-> image_path, palette_path |-> palette_path]

EmptyBatch ==
    [palettes |-> <<>>, processed |-> <<>>, skipped |-> <<>>, written |-> <<>>,
     crashed |-> FALSE]

\* The loop "for image_path in images" from its i-th path on.  get_palette is
\* called outside the try: its exception leaves the loop and main().
\* save_palette is called inside it: its exception is printed and the path skipped.
RECURSIVE extract_loop(_, _, _, _)
extract_loop(imgs, oc, i, acc) ==
    IF i > Len(imgs) THEN acc
    ELSE IF oc[i] = "get_palette_raises" THEN [acc EXCEPT !.crashed = TRUE]
    ELSE IF oc[i] = "save_palette_raises"
         THEN extract_loop(imgs, oc, i + 1,
                           [acc EXCEPT !.processed = Append(@, imgs[i]),
                                       !.skipped = Append(@, imgs[i])])
    ELSE LET palette == extract_colors(imgs[i])
             saved == save_palette(palette, palette_to_rgb(palette), imgs[i])
         IN  extract_loop(imgs, oc, i + 1,
                 [acc EXCEPT !.palettes = Append(@, PaletteObject(palette, imgs[i],
                                                                  saved.filepath)),
                             !.processed = Append(@, imgs[i]),
                             !.written = Append(@, saved)])

\* A mutant of extract_palettes: the collection is not emptied first.
extract_palettes_keep(imgs, oc) ==
    extract_loop(imgs, oc, 1, [EmptyBatch EXCEPT !.palettes = palettes])

\* "Extraction des palettes": palettes_list.palettes = [], then the loop.
extract_palettes(imgs, oc) == extract_loop(imgs, oc, 1, EmptyBatch)

\* Python's list[i]: IndexError outside -len..len-1, a negative i counts from
\* the end.
IndexError(list, i) == i < 0 - Len(list) \/ i >= Len(list)

list_item(list, i) == IF i >= 0 THEN list[i + 1] ELSE list[Len(list) + i + 1]

\* A mutant of export_targets: the index is used 0-based on a 1-based list.
export_targets_shifted(palettes_list, indice) ==
    IF indice = ALL THEN palettes_list
    ELSE <<palettes_list[IF indice > 1 THEN indice - 1 ELSE Len(palettes_list)]>>

\* export: palettes = all of them if indice == -1, else [palettes[indice-1]].
export_targets(palettes_list, indice) ==
    IF indice = ALL THEN palettes_list ELSE <<list_item(palettes_list, indice - 1)>>

\* export: one exporter.export(...) call per targeted palette, in order.
export(exporter, palettes_list, indice, extension) ==
    [k \in DOMAIN export_targets(palettes_list, indice) |->
        export_call(exporter, export_targets(palettes_list, indice)[k], extension)]

\* The iteration prints a message and reads the next option (continue).
Reprompt(text, message) ==
    /\ line' = text
    /\ msg' = message
    /\ act' = NoAct
    /\ images' = <<>>
    /\ processed' = <<>>
    /\ skipped' = <<>>
    /\ calls' = <<>>
    /\ written' = <<>>
    /\ UNCHANGED <<palettes, status>>

\* The iteration executes an action that leaves the collection alone.
Executed(text, a) ==
    /\ line' = text
    /\ msg' = "none"
    /\ act' = a
    /\ images' = <<>>
    /\ processed' = <<>>
    /\ skipped' = <<>>
    /\ UNCHANGED palettes

\* The iteration falls through to the extraction of the paths imgs.
Generate(text, a, imgs) ==
    \E oc \in [DOMAIN imgs -> {"ok", "get_palette_raises", "save_palette_raises"}] :
        /\ \A i \in DOMAIN imgs : oc[i] \in Outcomes(imgs[i])
        /\ \E batch \in {extract_palettes(imgs, oc)} :
              /\ line' = text
              /\ msg' = "none"
              /\ act' = a
              /\ images' = imgs
              /\ palettes' = batch.palettes
              /\ processed' = batch.processed
              /\ skipped' = batch.skipped
              /\ written' = batch.written
              /\ calls' = <<>>
              /\ status' = IF batch.crashed THEN "crashed" ELSE "running"

Exit ==
    /\ status = "running"
    /\ line' = Words.exit
    /\ status' = "exited"
    /\ msg' = "none" /\ act' = NoAct /\ images' = <<>> /\ processed' = <<>>
    /\ skipped' = <<>> /\ calls' = <<>> /\ written' = <<>>
    /\ UNCHANGED <<palettes, fnVars>>

Help(text) ==
    /\ status = "running"
    /\ Branch(text) = "help"
    /\ Executed(text, [NoAct EXCEPT !.action = ActHelp])
    /\ calls' = <<>> /\ written' = <<>>
    /\ UNCHANGED <<status, fnVars>>

Config(text) ==
    /\ status = "running"
    /\ Branch(text) = "config"
    /\ Executed(text, [NoAct EXCEPT !.action = ActConfig])
    /\ calls' = <<>> /\ written' = <<>>
    /\ UNCHANGED <<status, fnVars>>

\* /s, /show: palette_info of palettes[indice - 1], or "Invalid palette index.".
\* With --display the two images are opened, which can fail.
Show(text) ==
    /\ status = "running"
    /\ Branch(text) = "show"
    /\ LET indice == get_indice_from_option(text, Len(palettes), FALSE)
           display == get_display_from_option(text)
       IN  IF indice = None
           THEN Reprompt(text, "Invalid palette index.")
           ELSE /\ Executed(text, [action |-> ActShow, indice |-> indice,
                                   display |-> display])
                /\ calls' = <<>> /\ written' = <<>>
                /\ \E opened \in BOOLEAN :
                      /\ (~display => opened)
                      /\ status' = IF opened /\ ~IndexError(palettes, indice - 1)
                                   THEN "running" ELSE "crashed"
    /\ UNCHANGED fnVars

\* /csv, /json, /gpl, /aco and every text with one of these prefixes: the
\* action is the first word without its slash.  An action that no "if action =="
\* test of main() matches reaches the extraction with the text as its image path.
Export(text) ==
    /\ status = "running"
    /\ Branch(text) = "export"
    /\ LET action == get_action_from_option(text)
           indice == get_indice_from_option(text, Len(palettes), TRUE)
           a == [action |-> action, indice |-> indice, display |-> FALSE]
       IN  IF indice = None
           THEN Reprompt(text, "Invalid palette index.")
           ELSE IF action \in ExportActions /\ indice # ALL
                   /\ IndexError(palettes, indice - 1)
           THEN /\ Executed(text, a)
                /\ calls' = <<>> /\ written' = <<>>
                /\ status' = "crashed"
           ELSE IF action \in ExportActions
           THEN LET todo == export(ExporterOf(action), palettes, indice, action)
                IN  /\ Executed(text, a)
                    /\ \E failAt \in 0..Len(todo) :
                          /\ calls' = IF failAt = 0 THEN todo ELSE SubSeq(todo, 1, failAt)
                          /\ written' = [k \in 1..(IF failAt = 0 THEN Len(todo)
                                                   ELSE failAt - 1) |->
                                           export_write(todo[k])]
                          /\ status' = IF failAt = 0 THEN "running" ELSE "crashed"
           ELSE Generate(text, a, <<text>>)
    /\ UNCHANGED fnVars

List(text) ==
    /\ status = "running"
    /\ Branch(text) = "list"
    /\ IF Len(palettes) = 0
       THEN Reprompt(text, "No palette available.")
       ELSE /\ Executed(text, [NoAct EXCEPT !.action = ActList])
            /\ calls' = <<>> /\ written' = <<>>
            /\ UNCHANGED status
    /\ UNCHANGED fnVars

\* A text that names something on disk: a file is extracted, a directory refused.
Path(text) ==
    /\ status = "running"
    /\ Branch(text) = "path"
    /\ IF FsKind(text) = "file"
       THEN Generate(text, [NoAct EXCEPT !.action = ActGenerate], <<text>>)
       ELSE Reprompt(text, "Only files are allowed.")
    /\ UNCHANGED fnVars

\* "1" or "/select": select_images(multiple=False) returns a path or None.
Select(text) ==
    /\ status = "running"
    /\ Branch(text) = "select"
    /\ \/ Reprompt(text, "No file has been selected.")
       \/ \E file \in ImagePaths :
             Generate(text, [NoAct EXCEPT !.action = ActGenerate], <<file>>)
    /\ UNCHANGED fnVars

\* "2" or "/multi": select_images(multiple=True) returns a list of paths or None.
Multi(text) ==
    /\ status = "running"
    /\ Branch(text) = "multi"
    /\ \/ Reprompt(text, "No file has been selected.")
       \/ \E files \in Selections :
             Generate(text, [NoAct EXCEPT !.action = ActGenerate], files)
    /\ UNCHANGED fnVars

Invalid(text) ==
    /\ status = "running"
    /\ Branch(text) = "invalid"
    /\ Reprompt(text, "Please enter a valid path.")
    /\ UNCHANGED fnVars

\* main(): palettes_list = PaletteList(palettes=[]) and the first prompt.
Init ==
    /\ palettes = <<>>
    /\ line = <<>>
    /\ status = "running"
    /\ msg = "none"
    /\ act = NoAct
    /\ images = <<>>
    /\ processed = <<>>
    /\ skipped = <<>>
    /\ calls = <<>>
    /\ written = <<>>
    /\ fn = "none"
    /\ arg = <<>>
    /\ ret = <<>>

Next ==
    \/ Exit
    \/ \E text \in Lines : Help(text)
    \/ \E text \in Lines : Config(text)
    \/ \E text \in Lines : Show(text)
    \/ \E text \in Lines : Export(text)
    \/ \E text \in Lines : List(text)
    \/ \E text \in Lines : Path(text)
    \/ \E text \in Lines : Select(text)
    \/ \E text \in Lines : Multi(text)
    \/ \E text \in Lines : Invalid(text)

Spec == Init /\ [][Next]_vars

(***************************************************************************)
(* Function-level specifications: the inputs are drawn by the initial      *)
(* predicate and one step applies the function.  The program's own         *)
(* variables stay as main() first sets them.                               *)
(***************************************************************************)
ProgInit ==
    /\ palettes = <<>>
    /\ line = <<>>
    /\ status = "running"
    /\ msg = "none"
    /\ act = NoAct
    /\ images = <<>>
    /\ processed = <<>>
    /\ skipped = <<>>
    /\ calls = <<>>
    /\ written = <<>>

\* Channel values on both sides of every formatting boundary.
ByteSamples == {0, 9, 171, 255}

\* RGB triples: one channel takes every value 0..255, the two others the samples.
HexInputs ==
    {<<v, a, b>> : v \in 0..255, a \in ByteSamples, b \in ByteSamples}
    \cup {<<a, v, b>> : v \in 0..255, a \in ByteSamples, b \in ByteSamples}
    \cup {<<a, b, v>> : v \in 0..255, a \in ByteSamples, b \in ByteSamples}

InitHex ==
    /\ ProgInit
    /\ fn = "none"
    /\ arg \in HexInputs
    /\ ret = <<>>

ApplyHex ==
    /\ fn = "none"
    /\ fn' = "convert_rgb_to_hex"
    /\ ret' = convert_rgb_to_hex(arg)
    /\ UNCHANGED <<arg, progVars>>

NextHex == ApplyHex

SpecHex == InitHex /\ [][NextHex]_vars

MaxColors == 4

SampleColors == {White, Black, Red, Green, Teal}

\* An image whose name holds a double quote.
ImageQ == <<"/", "q", "\"", "t", ".", "p">>

\* The stored palettes export is applied to: up to MaxColors colours in any order.
ExportInputs ==
    {PaletteObject(pal, img, palette_file_path(image_base_name(img), Png)) :
        pal \in UNION {[1..n -> SampleColors] : n \in 0..MaxColors},
        img \in {ImageC, ImageQ}}

InitExport ==
    /\ ProgInit
    /\ fn = "none"
    /\ arg \in ExportInputs
    /\ ret = <<>>

\* One pass of export's loop on the palette object arg, for one of the four
\* export commands.
ApplyExport(extension) ==
    /\ fn = "none"
    /\ fn' = "export"
    /\ ret' = [call  |-> export_call(ExporterOf(extension), arg, extension),
               write |-> export_write(export_call(ExporterOf(extension), arg,
                                                  extension))]
    /\ UNCHANGED <<arg, progVars>>

NextExport == \E extension \in ExportActions : ApplyExport(extension)

SpecExport == InitExport /\ [][NextExport]_vars

MaxColumns == 3

\* Two colours on either side of the label threshold.
Grey200 == [rgb |-> <<200, 200, 200>>, freq |-> 1234, luminance |-> 200]
Grey201 == [rgb |-> <<201, 201, 201>>, freq |-> 5000, luminance |-> 201]

RenderColors == {Black, Grey200, Grey201}

\* Configurations: 0..MaxColumns columns, square and non-square swatches.
RenderConfigs ==
    {[config EXCEPT !.columns = c, !.square_x = sq[1], !.square_y = sq[2]] :
        c \in 0..MaxColumns, sq \in {<<100, 100>>, <<80, 120>>}}

\* What the renderer is applied to: a configuration and a palette of up to
\* MaxColors colours, the empty palette included.
RenderInputs ==
    [config : RenderConfigs,
     palette : UNION {[1..n -> RenderColors] : n \in 0..MaxColors}]

NoImage == [width |-> 0, height |-> 0, swatches |-> <<>>]

InitRender ==
    /\ ProgInit
    /\ fn = "none"
    /\ arg \in RenderInputs
    /\ ret = <<>>

\* create_palette_image(palette, palette_rgb, image_path): it returns the image
\* or raises.
ApplyCreate ==
    /\ fn = "none"
    /\ fn' = "create_palette_image"
    /\ ret' = IF create_palette_image_raises(arg.config, arg.palette)
              THEN [raised |-> TRUE, image |-> NoImage]
              ELSE [raised |-> FALSE,
                    image |-> create_palette_image_with(arg.config, arg.palette,
                                  palette_to_rgb(arg.palette), ImageA)]
    /\ UNCHANGED <<arg, progVars>>

\* save_palette(palette, palette_rgb, image_path): create_palette_image, then
\* os.makedirs and image.save, which raise or store the file (what Pillow does
\* with an image of height 0 is not decided by this code).
ApplySave ==
    /\ fn = "none"
    /\ fn' = "save_palette"
    /\ \E stored \in BOOLEAN :
          /\ create_palette_image_raises(arg.config, arg.palette) => ~stored
          /\ ret' = IF stored
                    THEN [raised |-> FALSE,
                          image |-> save_palette_with(arg.config, arg.palette,
                                        palette_to_rgb(arg.palette), ImageA).content]
                    ELSE [raised |-> TRUE, image |-> NoImage]
    /\ UNCHANGED <<arg, progVars>>

NextRender == ApplyCreate \/ ApplySave

SpecRender == InitRender /\ [][NextRender]_vars

MaxCount == 65535

\* The numbers of colours the ACO exporter is given: every 16-bit count.
AcoCountInputs == 0..MaxCount

InitAcoCount ==
    /\ ProgInit
    /\ fn = "none"
    /\ arg \in AcoCountInputs
    /\ ret = <<>>

\* ExportToACO.export on a palette of arg colours, up to its count bytes:
\* they are written after the version [0, 1], or bytearray raises.
ApplyAcoCount ==
    /\ fn = "none"
    /\ fn' = "ExportToACO_count"
    /\ ret' = IF AcoCount_raises(arg)
              THEN [raised |-> TRUE, bytes |-> <<>>]
              ELSE [raised |-> FALSE, bytes |-> AcoCount(arg)]
    /\ UNCHANGED <<arg, progVars>>

NextAcoCount == ApplyAcoCount

SpecAcoCount == InitAcoCount /\ [][NextAcoCount]_vars

(***************************************************************************)
(* Readers of the exported formats, used to state the properties below.    *)
(***************************************************************************)
UpperHexDigits == <<"0", "1", "2", "3", "4", "5", "6", "7", "8", "9",
                    "A", "B", "C", "D", "E", "F">>

HexPairValue(hi, lo) ==
    16 * (IndexOf(hi, UpperHexDigits) - 1) + (IndexOf(lo, UpperHexDigits) - 1)

\* The triple a "#RRGGBB" text denotes.
DecodeHex(h) ==
    <<HexPairValue(h[2], h[3]), HexPairValue(h[4], h[5]), HexPairValue(h[6], h[7])>>

\* The number a text of decimal digits denotes, -1 for any other text.
ParseDec(s) == IF IsDigits(s) THEN DigitsValue(s) ELSE -1

\* The lines of a text whose lines each end with "\n" (a "\r" before it is
\* dropped, as a reader in universal-newline mode does); <<>> is not returned
\* for a text that does not end with "\n": TextEnded tells.
TextEnded(text) == text # <<>> /\ text[Len(text)] = "\n"

TextLines(text) ==
    LET pieces == split(text, "\n")
    IN  [i \in 1..(Len(pieces) - 1) |->
           IF pieces[i] # <<>> /\ pieces[i][Len(pieces[i])] = "\r"
           THEN SubSeq(pieces[i], 1, Len(pieces[i]) - 1)
           ELSE pieces[i]]

JFail == [ok |-> FALSE, v |-> <<>>, p |-> 0]

RECURSIVE JSkip(_, _)
JSkip(t, p) ==
    IF p = 0 THEN 0
    ELSE IF p <= Len(t) /\ t[p] = " " THEN JSkip(t, p + 1)
    ELSE p

\* The position after character ch, expected at p after blanks; 0 if absent.
JExpect(t, p, ch) ==
    LET q == JSkip(t, p)
    IN  IF q > 0 /\ q <= Len(t) /\ t[q] = ch THEN q + 1 ELSE 0

RECURSIVE JStrScan(_, _, _)
JStrScan(t, p, acc) ==
    IF p > Len(t) THEN JFail
    ELSE IF t[p] = "\"" THEN [ok |-> TRUE, v |-> acc, p |-> p + 1]
    ELSE IF t[p] = "\\"
         THEN IF p + 1 > Len(t) THEN JFail
              ELSE JStrScan(t, p + 2, Append(acc, t[p + 1]))
    ELSE JStrScan(t, p + 1, Append(acc, t[p]))

\* A JSON string at p.
JStr(t, p) ==
    IF p > 0 /\ p <= Len(t) /\ t[p] = "\"" THEN JStrScan(t, p + 1, <<>>) ELSE JFail

RECURSIVE JNumScan(_, _, _, _)
JNumScan(t, p, n, count) ==
    IF p <= Len(t) /\ t[p] \in Range(Digits)
    THEN JNumScan(t, p + 1, 10 * n + (IndexOf(t[p], Digits) - 1), count + 1)
    ELSE IF count = 0 THEN [ok |-> FALSE, v |-> 0, p |-> 0]
    ELSE [ok |-> TRUE, v |-> n, p |-> p]

\* A JSON integer at p.
JNum(t, p) == IF p > 0 THEN JNumScan(t, p, 0, 0) ELSE [ok |-> FALSE, v |-> 0, p |-> 0]

RECURSIVE JItems(_, _, _, _)
RECURSIVE JList(_, _, _)

\* A JSON value at p: kind "num" an integer, "str" a string, "nums" an array
\* of integers.
JElem(t, p, kind) ==
    CASE kind = "num"  -> JNum(t, p)
      [] kind = "str"  -> JStr(t, p)
      [] kind = "nums" -> JList(t, p, "num")

JItems(t, p, kind, acc) ==
    LET elem == JElem(t, JSkip(t, p), kind)
    IN  IF ~elem.ok THEN JFail
        ELSE IF JExpect(t, elem.p, ",") > 0
             THEN JItems(t, JExpect(t, elem.p, ","), kind, Append(acc, elem.v))
        ELSE IF JExpect(t, elem.p, "]") > 0
             THEN [ok |-> TRUE, v |-> Append(acc, elem.v), p |-> JExpect(t, elem.p, "]")]
        ELSE JFail

\* A JSON array at p, of values of one kind.
JList(t, p, kind) ==
    IF JExpect(t, p, "[") = 0 THEN JFail
    ELSE IF JExpect(t, JExpect(t, p, "["), "]") > 0
         THEN [ok |-> TRUE, v |-> <<>>, p |-> JExpect(t, JExpect(t, p, "["), "]")]
    ELSE JItems(t, JExpect(t, p, "["), kind, <<>>)

\* json.load of a text of the shape {string: string, string: array of arrays
\* of integers, string: array of strings}: its keys and values.
JsonLoad(t) ==
    LET k1 == JStr(t, JSkip(t, JExpect(t, 1, "{")))
        v1 == JStr(t, JSkip(t, JExpect(t, k1.p, ":")))
        k2 == JStr(t, JSkip(t, JExpect(t, v1.p, ",")))
        v2 == JList(t, JExpect(t, k2.p, ":"), "nums")
        k3 == JStr(t, JSkip(t, JExpect(t, v2.p, ",")))
        v3 == JList(t, JExpect(t, k3.p, ":"), "str")
    IN  IF JExpect(t, v3.p, "}") = Len(t) + 1
        THEN [ok |-> TRUE, keys |-> <<k1.v, k2.v, k3.v>>,
              name |-> v1.v, rgb |-> v2.v, hex |-> v3.v]
        ELSE [ok |-> FALSE, keys |-> <<>>, name |-> <<>>, rgb |-> <<>>, hex |-> <<>>]

(***************************************************************************)
(* Properties of the exporters and of the hex conversion.                  *)
(***************************************************************************)
Exported(exporter) == fn = "export" /\ ret.call.exporter = exporter

\* C6: the ACO export of a palette of N colours is 4 + 10*N bytes long, starts
\* with [0, 1], then [N div 255, N mod 255], then one block
\* [0, 0, R, R, G, G, B, B, 0, 0] per colour, in palette order.
C6_AcoLayout ==
    Exported("ExportToACO") =>
        LET bytes == ret.write.content
            N == Len(arg.palette)
        IN  /\ Len(bytes) = 4 + 10 * N
            /\ SubSeq(bytes, 1, 2) = <<0, 1>>
            /\ SubSeq(bytes, 3, 4) = <<N \div 255, N % 255>>
            /\ \A i \in 1..N :
                  LET c == arg.palette[i].rgb
                  IN  SubSeq(bytes, 4 + 10 * (i - 1) + 1, 4 + 10 * i)
                      = <<0, 0, c[1], c[1], c[2], c[2], c[3], c[3], 0, 0>>

C6_Witness ==
    /\ Exported("ExportToACO")
    /\ arg.palette = <<Teal, White>>
    /\ ret.write.content = <<0, 1, 0, 2, 0, 0, 9, 9, 171, 171, 16, 16, 0, 0,
                             0, 0, 255, 255, 255, 255, 255, 255, 0, 0>>

\* C7: the CSV export of a palette of N colours has exactly N+1 lines, the
\* header R,G,B,HEX and one row R,G,B,#RRGGBB per colour in palette order, and
\* reading the rows back gives the RGB list and the hex list that were exported.
C7_CsvRoundTrip ==
    Exported("ExportToCSV") =>
        LET text == ret.write.content
            rows == TextLines(text)
            N == Len(arg.palette)
        IN  /\ TextEnded(text)
            /\ Len(rows) = N + 1
            /\ rows[1] = <<"R", ",", "G", ",", "B", ",", "H", "E", "X">>
            /\ Len(ret.call.palette_rgb) = N
            /\ Len(ret.call.palette_hex) = N
            /\ \A i \in 1..N :
                  LET fields == split(rows[i + 1], ",")
                  IN  /\ Len(fields) = 4
                      /\ <<ParseDec(fields[1]), ParseDec(fields[2]), ParseDec(fields[3])>>
                         = ret.call.palette_rgb[i]
                      /\ fields[4] = ret.call.palette_hex[i]
                      /\ ret.call.palette_rgb[i] = arg.palette[i].rgb

\* The spec's end-to-end scenario.
C7_Witness ==
    /\ Exported("ExportToCSV")
    /\ arg.palette = <<White, Black, Red, Green>>
    /\ TextLines(ret.write.content) =
         << <<"R", ",", "G", ",", "B", ",", "H", "E", "X">>,
            <<"2", "5", "5", ",", "2", "5", "5", ",", "2", "5", "5", ",",
              "#", "F", "F", "F", "F", "F", "F">>,
            <<"0", ",", "0", ",", "0", ",", "#", "0", "0", "0", "0", "0", "0">>,
            <<"2", "5", "5", ",", "0", ",", "0", ",", "#", "F", "F", "0", "0", "0", "0">>,
            <<"0", ",", "2", "5", "5", ",", "0", ",", "#", "0", "0", "F", "F", "0", "0">> >>

\* C8: parsing the JSON export gives back name = the palette name, rgb = the
\* exported RGB triples and hex = the exported hex strings, same length, same
\* order.
C8_JsonRoundTrip ==
    Exported("ExportToJSon") =>
        LET parsed == JsonLoad(ret.write.content)
        IN  /\ parsed.ok
            /\ parsed.keys = << <<"n", "a", "m", "e">>, <<"r", "g", "b">>,
                                <<"h", "e", "x">> >>
            /\ parsed.name = ret.call.palette_name
            /\ parsed.rgb = ret.call.palette_rgb
            /\ parsed.hex = ret.call.palette_hex
            /\ Len(parsed.rgb) = Len(arg.palette)
            /\ Len(parsed.hex) = Len(arg.palette)

C8_Witness ==
    /\ Exported("ExportToJSon")
    /\ arg.image_path = ImageQ
    /\ arg.palette = <<Teal, Black>>
    /\ JsonLoad(ret.write.content).name = <<"q", "\"", "t">>
    /\ JsonLoad(ret.write.content).rgb = << <<9, 171, 16>>, <<0, 0, 0>> >>
    /\ JsonLoad(ret.write.content).hex =
         << <<"#", "0", "9", "A", "B", "1", "0">>,
            <<"#", "0", "0", "0", "0", "0", "0">> >>

\* C9: the GPL export of a palette of N colours is the 6 header lines
\* (GIMP Palette / Name: name / Columns: 5 / # / # Number : N / #) followed by
\* exactly N lines "R G B Index i", i running over 0..N-1 in palette order.
C9_GplLayout ==
    Exported("ExportToGPL") =>
        LET text == ret.write.content
            rows == TextLines(text)
            N == Len(arg.palette)
        IN  /\ TextEnded(text)
            /\ Len(rows) = 6 + N
            /\ rows[1] = <<"G", "I", "M", "P", " ", "P", "a", "l", "e", "t", "t", "e">>
            /\ rows[2] = <<"N", "a", "m", "e", ":", " ">> \o ret.call.palette_name
            /\ rows[3] = <<"C", "o", "l", "u", "m", "n", "s", ":", " ", "5">>
            /\ rows[4] = <<"#">>
            /\ SubSeq(rows[5], 1, 11)
               = <<"#", " ", "N", "u", "m", "b", "e", "r", " ", ":", " ">>
            /\ ParseDec(SubSeq(rows[5], 12, Len(rows[5]))) = N
            /\ rows[6] = <<"#">>
            /\ \A i \in 1..N :
                  LET words == split(rows[6 + i], " ")
                  IN  /\ Len(words) = 5
                      /\ <<ParseDec(words[1]), ParseDec(words[2]), ParseDec(words[3])>>
                         = arg.palette[i].rgb
                      /\ words[4] = <<"I", "n", "d", "e", "x">>
                      /\ ParseDec(words[5]) = i - 1

C9_Witness ==
    /\ Exported("ExportToGPL")
    /\ arg.palette = <<Teal, White, Black>>
    /\ TextLines(ret.write.content)[5]
       = <<"#", " ", "N", "u", "m", "b", "e", "r", " ", ":", " ", "3">>
    /\ TextLines(ret.write.content)[9]
       = <<"0", " ", "0", " ", "0", " ", "I", "n", "d", "e", "x", " ", "2">>

\* C10: for every RGB triple of bytes, convert_rgb_to_hex gives 7 characters,
\* "#" and six uppercase hexadecimal digits, which decode pairwise to the triple.
C10_HexRoundTrip ==
    fn = "convert_rgb_to_hex" =>
        /\ Len(ret) = 7
        /\ ret[1] = "#"
        /\ \A i \in 2..7 : ret[i] \in Range(UpperHexDigits)
        /\ DecodeHex(ret) = arg

C10_Witness ==
    /\ fn = "convert_rgb_to_hex"
    /\ arg = <<9, 171, 16>>
    /\ ret = <<"#", "0", "9", "A", "B", "1", "0">>

(***************************************************************************)
(* Properties of the command loop.                                         *)
(***************************************************************************)
\* str.lower() on one character, for the letters of "all".
LowerChar(ch) == CASE ch = "A" -> "a" [] ch = "L" -> "l" [] OTHER -> ch

lower(s) == [i \in DOMAIN s |-> LowerChar(s[i])]

\* The words of the last option read, and whether it carries an index token.
LineWords == split(strip(line), " ")

HasToken == Len(LineWords) > 1

Token == LineWords[2]

IsWildcard(tok) == lower(tok) = <<"a", "l", "l">>

\* The last iteration ran an extraction batch.
BatchRan == images # <<>>

\* C1: in a batch, a path whose extraction or rendering fails is skipped and
\* every later path of the batch is still processed.
C1_LaterPathsProcessed ==
    \A i \in DOMAIN images :
        (\E j \in 1..(i - 1) : images[j] \notin Range(processed))
            => images[i] \in Range(processed)

\* C2: an index token that is neither the wildcard nor a decimal integer k with
\* 1 <= k <= number of stored palettes (a display flag aside) is invalid: the
\* option is refused with "Invalid palette index." and nothing is executed.
C2_InvalidTokenRefused ==
    (/\ Branch(line) \in {"show", "export"}
     /\ ~BatchRan
     /\ HasToken
     /\ ~IsWildcard(Token)
     /\ Token \notin DisplayFlags
     /\ ~(IsDigits(Token) /\ DigitsValue(Token) \in 1..Len(palettes)))
        => (msg = "Invalid palette index." /\ act = NoAct)

\* C3: an export command resolves the token "all", in any letter case, to the
\* wildcard; a show command never does.
C3_AllAnyCase ==
    (HasToken /\ IsWildcard(Token)) =>
        /\ (Branch(line) = "export" => act.indice = ALL)
        /\ (Branch(line) = "show" => act.indice # ALL)

\* C4: only an option that gives new image input (a path, a file selection)
\* changes the collection; show, the exports (and any text with an export
\* prefix), list, help and config leave it as it is.
C4_OnlyImageInputChangesCollection ==
    [][Branch(line') \notin {"path", "select", "multi"} => palettes' = palettes]_vars

\* The text before the first dot of the last component of a path.
FirstDotStem(path) ==
    LET file == SubSeq(path, FindLast("/", path) + 1, Len(path))
    IN  IF Find(".", file) = 0 THEN file ELSE SubSeq(file, 1, Find(".", file) - 1)

\* The positions in the collection that an export of index indice targets.
Targeted(indice) ==
    IF indice = ALL THEN [k \in 1..Len(palettes) |-> k] ELSE <<indice>>

\* C5: an export that returns has called the command's exporter exactly once
\* per targeted record, in collection order (record k for index k, every record
\* for the wildcard), each call writing {save_path}/{base name}_palette.{ext}
\* with ext the command's csv, json, gpl or aco; an export stopped by an I/O
\* error has made a prefix of these calls.
C5_ExportOncePerTarget ==
    act.action \in ExportActions =>
        /\ startswith(line, <<"/">> \o act.action)
        /\ Len(calls) <= Len(Targeted(act.indice))
        /\ (status = "running" => Len(calls) = Len(Targeted(act.indice)))
        /\ Len(written) = (IF status = "running" THEN Len(calls) ELSE Len(calls) - 1)
        /\ \A k \in DOMAIN calls :
              /\ calls[k].exporter =
                   (CASE act.action = Csv -> "ExportToCSV"
                      [] act.action = Json -> "ExportToJSon"
                      [] act.action = Gpl -> "ExportToGPL"
                      [] act.action = Aco -> "ExportToACO")
              /\ calls[k].filepath =
                   save_path \o <<"/">>
                   \o FirstDotStem(palettes[Targeted(act.indice)[k]].image_path)
                   \o <<"_", "p", "a", "l", "e", "t", "t", "e", ".">> \o act.action
              /\ calls[k].palette_rgb
                   = [i \in DOMAIN palettes[Targeted(act.indice)[k]].palette |->
                        palettes[Targeted(act.indice)[k]].palette[i].rgb]
        /\ \A k \in DOMAIN written : written[k].filepath = calls[k].filepath

C5_Witness ==
    /\ status = "running"
    /\ act.action = Gpl
    /\ act.indice = ALL
    /\ Len(palettes) = 2
    /\ palettes[2].image_path = ImageC
    /\ Len(calls) = 2
    /\ calls[2].filepath = <<"o", "u", "t", "/", "b", "_", "p", "a", "l", "e", "t",
                             "t", "e", ".", "g", "p", "l">>

\* C12: every exporter call of an export receives an RGB list and a hex list
\* as long as the stored palette, both in the palette's stored order, the i-th
\* hex text being "#" and six uppercase hexadecimal digits that denote the
\* i-th RGB triple.
C12_RgbHexAligned ==
    act.action \in ExportActions =>
        \A k \in DOMAIN calls :
            LET stored == palettes[Targeted(act.indice)[k]].palette
                rgb == calls[k].palette_rgb
                hex == calls[k].palette_hex
            IN  /\ Len(rgb) = Len(stored)
                /\ Len(hex) = Len(rgb)
                /\ \A i \in DOMAIN stored :
                      /\ rgb[i] = stored[i].rgb
                      /\ Len(hex[i]) = 7
                      /\ hex[i][1] = "#"
                      /\ \A j \in 2..7 : hex[i][j] \in Range(UpperHexDigits)
                      /\ DecodeHex(hex[i]) = rgb[i]

C12_Witness ==
    /\ act.action = Json
    /\ act.indice = ALL
    /\ Len(calls) = 2
    /\ palettes[2].image_path = ImageB
    /\ calls[1].palette_rgb = <<<<255, 255, 255>>, <<0, 0, 0>>, <<255, 0, 0>>,
                                <<0, 255, 0>>>>
    /\ calls[1].palette_hex[3] = <<"#", "F", "F", "0", "0", "0", "0">>
    /\ calls[2].palette_rgb = <<<<9, 171, 16>>>>
    /\ calls[2].palette_hex = <<<<"#", "0", "9", "A", "B", "1", "0">>>>

\* The paths of imgs that are not in the sequence dropped, in their order.
RECURSIVE Without(_, _)
Without(imgs, dropped) ==
    IF imgs = <<>> THEN <<>>
    ELSE IF Head(imgs) \in Range(dropped) THEN Without(Tail(imgs), dropped)
    ELSE <<Head(imgs)>> \o Without(Tail(imgs), dropped)

\* C13: when an extraction batch completes, the collection holds exactly one
\* record per path of the batch that was processed without a failure, in the
\* order of the paths in the input, and nothing of what it held before.
C13_BatchReplacesCollection ==
    (BatchRan /\ status = "running") =>
        /\ [k \in DOMAIN palettes |-> palettes[k].image_path] = Without(images, skipped)
        /\ \A k \in DOMAIN palettes :
              /\ palettes[k].palette = extract_colors(palettes[k].image_path)
              /\ palettes[k].palette_path = written[k].filepath

C13_Witness ==
    /\ status = "running"
    /\ line = Words.two
    /\ images = <<ImageA, ImageC>>
    /\ skipped = <<ImageA>>
    /\ Len(palettes) = 1
    /\ palettes[1].image_path = ImageC

\* C14: a show or export command whose index token is omitted, or whose token
\* position holds a display flag, resolves to index 1 and is executed on the
\* first palette when the collection holds at least one record.
C14_OmittedIndexIsOne ==
    (/\ Branch(line) \in {"show", "export"}
     /\ ~BatchRan
     /\ ~HasToken \/ Token \in DisplayFlags
     /\ Len(palettes) >= 1)
        => /\ msg = "none"
           /\ act.indice = 1
           /\ act.action \in ExportActions =>
                 \A k \in DOMAIN calls :
                     calls[k].palette_rgb = palette_to_rgb(palettes[1].palette)

C14_Witness ==
    /\ status = "running"
    /\ line = Words.json
    /\ Len(palettes) = 2
    /\ act = [action |-> Json, indice |-> 1, display |-> FALSE]
    /\ Len(calls) = 1
    /\ calls[1].palette_rgb = palette_to_rgb(palettes[1].palette)

\* The text is a show or export command whose reference names no palette of a
\* collection of n records: not the wildcard, not a display flag, not a decimal
\* integer of 1..n.
InvalidReference(text, n) ==
    LET words == split(strip(text), " ")
    IN  /\ Branch(text) \in {"show", "export"}
        /\ Len(words) > 1
        /\ ~IsWildcard(words[2])
        /\ words[2] \notin DisplayFlags
        /\ ~(IsDigits(words[2]) /\ DigitsValue(words[2]) \in 1..n)

\* C15: a show or export command with an invalid palette reference is reported
\* ("Invalid palette index."), executes no action, calls no exporter, writes no
\* file, leaves the collection as it was, and the loop prompts again.
C15_InvalidReferenceNoEffect ==
    [][InvalidReference(line', Len(palettes)) =>
          /\ msg' = "Invalid palette index."
          /\ act' = NoAct
          /\ calls' = <<>>
          /\ written' = <<>>
          /\ palettes' = palettes
          /\ status' = "running"]_vars

\* C17: "/select" opens the single-file selector as "1" does, and "/multi" the
\* multi-file selector as "2" does, whatever the collection holds: either no
\* file is selected or the selected files are extracted.
C17_SelectorAliases ==
    line \in {Words.one, Words.select, Words.two, Words.multi} =>
        \/ msg = "No file has been selected." /\ act = NoAct
        \/ /\ act.action = ActGenerate
           /\ BatchRan
           /\ line \in {Words.one, Words.select} => Len(images) = 1

\* C19: an executed show or export has the wildcard as its index (exports only)
\* or an integer of 1..number of stored records, so palettes[indice - 1] exists;
\* no show and no single-record export is executed on an empty collection.
C19_ExecutedIndexInRange ==
    act.action \in ExportActions \cup {ActShow} =>
        /\ \/ act.action # ActShow /\ act.indice = ALL
           \/ act.indice \in 1..Len(palettes)
        /\ act.indice # ALL => ~IndexError(palettes, act.indice - 1)
        /\ Len(palettes) = 0 => act.action # ActShow /\ act.indice = ALL /\ calls = <<>>

C19_Witness ==
    /\ act.action = ActShow
    /\ act.indice = 2
    /\ Len(palettes) = 2
    /\ line = Words.s \o <<" ", "2">>
    /\ status = "running"

\* C20: an export of ALL records that returns has written one file per record,
\* the files of distinct records at distinct paths.
C20_AllWritesDistinctFiles ==
    (act.action \in ExportActions /\ act.indice = ALL /\ status = "running") =>
        /\ Len(written) = Len(palettes)
        /\ \A j, k \in DOMAIN written :
              j # k => written[j].filepath # written[k].filepath

(***************************************************************************)
(* Properties of the renderer.                                             *)
(***************************************************************************)
Rendered == fn = "create_palette_image" /\ ~ret.raised

\* The least number of rows of cols cells that hold n cells.
CeilDiv(n, cols) ==
    CHOOSE r \in 0..n : r * cols >= n /\ (r = 0 \/ (r - 1) * cols < n)

\* C11: for N colours and a configuration of `columns` columns, the canvas is
\* columns*squareWidth wide and ceil(N/columns)*squareHeight high, and swatch i
\* (0-based) has its corner at ((i mod columns)*squareWidth,
\* (i div columns)*squareHeight).
C11_SwatchLayout ==
    Rendered =>
        LET N == Len(arg.palette)
            cfg == arg.config
        IN  /\ ret.image.width = cfg.columns * cfg.square_x
            /\ ret.image.height = CeilDiv(N, cfg.columns) * cfg.square_y
            /\ Len(ret.image.swatches) = N
            /\ \A i \in 0..(N - 1) :
                  /\ ret.image.swatches[i + 1].x = (i % cfg.columns) * cfg.square_x
                  /\ ret.image.swatches[i + 1].y = (i \div cfg.columns) * cfg.square_y
                  /\ ret.image.swatches[i + 1].fill = arg.palette[i + 1].rgb

C11_Witness ==
    /\ Rendered
    /\ Len(arg.palette) = 4
    /\ arg.config.columns = 3
    /\ arg.config.square_x = 80
    /\ ret.image.width = 240
    /\ ret.image.height = 240
    /\ ret.image.swatches[4].x = 0
    /\ ret.image.swatches[4].y = 120
    /\ ret.image.swatches[3].x = 160

\* C16: rendering a palette of no colour fails: create_palette_image and
\* save_palette raise instead of returning or saving an image.
C16_EmptyPaletteRaises ==
    (fn \in {"create_palette_image", "save_palette"} /\ arg.palette = <<>>)
        => ret.raised

\* C18: both labels of a swatch are drawn black (0,0,0) when the colour's
\* luminance is strictly greater than 200 and white (255,255,255) otherwise,
\* a luminance of exactly 200 included.
C18_LabelContrast ==
    Rendered =>
        \A i \in DOMAIN ret.image.swatches :
            LET expected == IF arg.palette[i].luminance > 200
                            THEN <<0, 0, 0>> ELSE <<255, 255, 255>>
            IN  /\ ret.image.swatches[i].title_fill = expected
                /\ ret.image.swatches[i].subtitle_fill = expected

C18_Witness ==
    /\ Rendered
    /\ arg.palette = <<Grey200, Grey201>>
    /\ ret.image.swatches[1].title_fill = <<255, 255, 255>>
    /\ ret.image.swatches[1].subtitle_fill = <<255, 255, 255>>
    /\ ret.image.swatches[1].subtitle = <<"1", "2", ".", "3", "4", "%">>
    /\ ret.image.swatches[2].title_fill = <<0, 0, 0>>
    /\ ret.image.swatches[2].subtitle_fill = <<0, 0, 0>>

(***************************************************************************)
(* Properties of the ACO colour count.                                     *)
(***************************************************************************)
\* The big-endian 16-bit encoding of n.
BigEndian16(n) == <<(n \div 256) % 256, n % 256>>

\* C21: the two count bytes the ACO exporter writes for N colours are the
\* big-endian 16-bit encoding of N exactly when N <= 254; for every N >= 255
\* that the two bytes can hold, the two encodings differ.
C21_CountVsBigEndian ==
    (fn = "ExportToACO_count" /\ ~ret.raised) =>
        /\ Len(ret.bytes) = 2
        /\ \A i \in 1..2 : ret.bytes[i] \in 0..255
        /\ ret.bytes = <<arg \div 255, arg % 255>>
        /\ (ret.bytes = BigEndian16(arg)) <=> (arg <= 254)

C21_Witness ==
    /\ fn = "ExportToACO_count"
    /\ arg = 255
    /\ ~ret.raised
    /\ ret.bytes = <<1, 0>>
    /\ BigEndian16(arg) = <<0, 255>>

====
